---- MODULE Spec2Model ----
(***************************************************************************)
(* A model of the fixed-step ray-casting renderer of src/main.rs: the      *)
(* occupancy query check_collision, the marcher cast_ray, and the window   *)
(* handler MyWindowHandler (on_key_down, on_key_up, on_draw).              *)
(*                                                                         *)
(* Numbers.  The program computes in f32.  The model computes in fixed     *)
(* point: a length is an integer number of micro-cells (Unit per grid      *)
(* cell), an angle an integer number of sixteenths of a degree (the fan    *)
(* of on_draw advances by 60/320 = 3/16 degree per column and a turn by 5  *)
(* degrees, so every angle the handler uses is such a multiple), and a     *)
(* sine or cosine an integer number of 1/TrigScale, read from a table of   *)
(* rounded values.  Rounding of f32 below that resolution is not modelled. *)
(***************************************************************************)
EXTENDS Integers, Sequences, FiniteSets, TLC

VARIABLES
    world,          \* MyWindowHandler.world
    pov,            \* MyWindowHandler.pov, in angle units
    fov,            \* MyWindowHandler.fov, in angle units
    player_x,       \* MyWindowHandler.player_x, in micro-cells
    player_y,       \* MyWindowHandler.player_y, in micro-cells
    keys_pressed,   \* MyWindowHandler.keys_pressed
    frame,          \* what the last on_draw read to draw its two passes of rays
    last_event,     \* history: the latest event of each key ("none", "down", "up")
    events,         \* history: the number of key events so far
    frames,         \* history: the number of on_draw calls so far
    call            \* a call of a free function under study, with its result

vars ==
    <<world, pov, fov, player_x, player_y, keys_pressed,
      frame, last_event, events, frames, call>>

(***************************************************************************)
(* Units.                                                                  *)
(***************************************************************************)
Unit == 1000 * 1000          \* micro-cells in one grid cell
TrigScale == 100 * 100       \* a sine is an entry of SinTab over TrigScale
DegUnit == 4 * 4             \* angle units in one degree
FullTurn == 360 * DegUnit

\* f32::to_radians, of a whole number of degrees.
to_radians(deg) == deg * DegUnit

\* The sines of 0, 1/16, 2/16, ..., 90 degrees, times TrigScale, rounded.
SinTab ==
    <<
    0, 11, 22, 33, 44, 55, 65, 76, 87, 98, 109, 120, 131, 142, 153, 164, 175, 185, 196, 207,
    218, 229, 240, 251, 262, 273, 284, 294, 305, 316, 327, 338, 349, 360, 371, 382, 393, 403, 414, 425,
    436, 447, 458, 469, 480, 491, 502, 512, 523, 534, 545, 556, 567, 578, 589, 600, 610, 621, 632, 643,
    654, 665, 676, 687, 698, 708, 719, 730, 741, 752, 763, 774, 785, 795, 806, 817, 828, 839, 850, 861,
    872, 882, 893, 904, 915, 926, 937, 948, 958, 969, 980, 991, 1002, 1013, 1024, 1034, 1045, 1056, 1067, 1078,
    1089, 1100, 1110, 1121, 1132, 1143, 1154, 1165, 1175, 1186, 1197, 1208, 1219, 1230, 1240, 1251, 1262, 1273, 1284, 1294,
    1305, 1316, 1327, 1338, 1349, 1359, 1370, 1381, 1392, 1403, 1413, 1424, 1435, 1446, 1457, 1467, 1478, 1489, 1500, 1510,
    1521, 1532, 1543, 1554, 1564, 1575, 1586, 1597, 1607, 1618, 1629, 1640, 1650, 1661, 1672, 1683, 1693, 1704, 1715, 1726,
    1736, 1747, 1758, 1769, 1779, 1790, 1801, 1812, 1822, 1833, 1844, 1855, 1865, 1876, 1887, 1897, 1908, 1919, 1930, 1940,
    1951, 1962, 1972, 1983, 1994, 2004, 2015, 2026, 2036, 2047, 2058, 2068, 2079, 2090, 2100, 2111, 2122, 2132, 2143, 2154,
    2164, 2175, 2186, 2196, 2207, 2218, 2228, 2239, 2250, 2260, 2271, 2281, 2292, 2303, 2313, 2324, 2334, 2345, 2356, 2366,
    2377, 2387, 2398, 2409, 2419, 2430, 2440, 2451, 2462, 2472, 2483, 2493, 2504, 2514, 2525, 2535, 2546, 2557, 2567, 2578,
    2588, 2599, 2609, 2620, 2630, 2641, 2651, 2662, 2672, 2683, 2693, 2704, 2714, 2725, 2735, 2746, 2756, 2767, 2777, 2788,
    2798, 2809, 2819, 2830, 2840, 2851, 2861, 2872, 2882, 2892, 2903, 2913, 2924, 2934, 2945, 2955, 2965, 2976, 2986, 2997,
    3007, 3017, 3028, 3038, 3049, 3059, 3069, 3080, 3090, 3101, 3111, 3121, 3132, 3142, 3152, 3163, 3173, 3183, 3194, 3204,
    3214, 3225, 3235, 3245, 3256, 3266, 3276, 3287, 3297, 3307, 3317, 3328, 3338, 3348, 3359, 3369, 3379, 3389, 3400, 3410,
    3420, 3430, 3441, 3451, 3461, 3471, 3482, 3492, 3502, 3512, 3523, 3533, 3543, 3553, 3563, 3573, 3584, 3594, 3604, 3614,
    3624, 3635, 3645, 3655, 3665, 3675, 3685, 3695, 3706, 3716, 3726, 3736, 3746, 3756, 3766, 3776, 3786, 3797, 3807, 3817,
    3827, 3837, 3847, 3857, 3867, 3877, 3887, 3897, 3907, 3917, 3927, 3937, 3947, 3957, 3967, 3977, 3987, 3997, 4007, 4017,
    4027, 4037, 4047, 4057, 4067, 4077, 4087, 4097, 4107, 4117, 4127, 4137, 4147, 4157, 4167, 4177, 4187, 4197, 4206, 4216,
    4226, 4236, 4246, 4256, 4266, 4276, 4285, 4295, 4305, 4315, 4325, 4335, 4344, 4354, 4364, 4374, 4384, 4394, 4403, 4413,
    4423, 4433, 4442, 4452, 4462, 4472, 4481, 4491, 4501, 4511, 4520, 4530, 4540, 4550, 4559, 4569, 4579, 4588, 4598, 4608,
    4617, 4627, 4637, 4646, 4656, 4666, 4675, 4685, 4695, 4704, 4714, 4724, 4733, 4743, 4752, 4762, 4772, 4781, 4791, 4800,
    4810, 4819, 4829, 4839, 4848, 4858, 4867, 4877, 4886, 4896, 4905, 4915, 4924, 4934, 4943, 4953, 4962, 4972, 4981, 4991,
    5000, 5009, 5019, 5028, 5038, 5047, 5057, 5066, 5075, 5085, 5094, 5104, 5113, 5122, 5132, 5141, 5150, 5160, 5169, 5178,
    5188, 5197, 5206, 5216, 5225, 5234, 5244, 5253, 5262, 5271, 5281, 5290, 5299, 5308, 5318, 5327, 5336, 5345, 5355, 5364,
    5373, 5382, 5391, 5401, 5410, 5419, 5428, 5437, 5446, 5456, 5465, 5474, 5483, 5492, 5501, 5510, 5519, 5528, 5538, 5547,
    5556, 5565, 5574, 5583, 5592, 5601, 5610, 5619, 5628, 5637, 5646, 5655, 5664, 5673, 5682, 5691, 5700, 5709, 5718, 5727,
    5736, 5745, 5754, 5763, 5771, 5780, 5789, 5798, 5807, 5816, 5825, 5834, 5842, 5851, 5860, 5869, 5878, 5887, 5895, 5904,
    5913, 5922, 5931, 5939, 5948, 5957, 5966, 5975, 5983, 5992, 6001, 6009, 6018, 6027, 6036, 6044, 6053, 6062, 6070, 6079,
    6088, 6096, 6105, 6114, 6122, 6131, 6139, 6148, 6157, 6165, 6174, 6182, 6191, 6200, 6208, 6217, 6225, 6234, 6242, 6251,
    6259, 6268, 6276, 6285, 6293, 6302, 6310, 6319, 6327, 6335, 6344, 6352, 6361, 6369, 6378, 6386, 6394, 6403, 6411, 6420,
    6428, 6436, 6445, 6453, 6461, 6470, 6478, 6486, 6494, 6503, 6511, 6519, 6528, 6536, 6544, 6552, 6561, 6569, 6577, 6585,
    6593, 6602, 6610, 6618, 6626, 6634, 6643, 6651, 6659, 6667, 6675, 6683, 6691, 6699, 6708, 6716, 6724, 6732, 6740, 6748,
    6756, 6764, 6772, 6780, 6788, 6796, 6804, 6812, 6820, 6828, 6836, 6844, 6852, 6860, 6868, 6876, 6884, 6891, 6899, 6907,
    6915, 6923, 6931, 6939, 6947, 6954, 6962, 6970, 6978, 6986, 6994, 7001, 7009, 7017, 7025, 7032, 7040, 7048, 7056, 7063,
    7071, 7079, 7086, 7094, 7102, 7110, 7117, 7125, 7133, 7140, 7148, 7155, 7163, 7171, 7178, 7186, 7193, 7201, 7209, 7216,
    7224, 7231, 7239, 7246, 7254, 7261, 7269, 7276, 7284, 7291, 7299, 7306, 7314, 7321, 7328, 7336, 7343, 7351, 7358, 7365,
    7373, 7380, 7387, 7395, 7402, 7410, 7417, 7424, 7431, 7439, 7446, 7453, 7461, 7468, 7475, 7482, 7490, 7497, 7504, 7511,
    7518, 7526, 7533, 7540, 7547, 7554, 7561, 7569, 7576, 7583, 7590, 7597, 7604, 7611, 7618, 7625, 7632, 7639, 7646, 7653,
    7660, 7667, 7674, 7681, 7688, 7695, 7702, 7709, 7716, 7723, 7730, 7737, 7744, 7751, 7758, 7765, 7771, 7778, 7785, 7792,
    7799, 7806, 7812, 7819, 7826, 7833, 7840, 7846, 7853, 7860, 7867, 7873, 7880, 7887, 7894, 7900, 7907, 7914, 7920, 7927,
    7934, 7940, 7947, 7953, 7960, 7967, 7973, 7980, 7986, 7993, 7999, 8006, 8013, 8019, 8026, 8032, 8039, 8045, 8052, 8058,
    8064, 8071, 8077, 8084, 8090, 8097, 8103, 8109, 8116, 8122, 8128, 8135, 8141, 8147, 8154, 8160, 8166, 8173, 8179, 8185,
    8192, 8198, 8204, 8210, 8216, 8223, 8229, 8235, 8241, 8247, 8254, 8260, 8266, 8272, 8278, 8284, 8290, 8296, 8303, 8309,
    8315, 8321, 8327, 8333, 8339, 8345, 8351, 8357, 8363, 8369, 8375, 8381, 8387, 8393, 8399, 8404, 8410, 8416, 8422, 8428,
    8434, 8440, 8446, 8451, 8457, 8463, 8469, 8475, 8480, 8486, 8492, 8498, 8504, 8509, 8515, 8521, 8526, 8532, 8538, 8543,
    8549, 8555, 8560, 8566, 8572, 8577, 8583, 8588, 8594, 8600, 8605, 8611, 8616, 8622, 8627, 8633, 8638, 8644, 8649, 8655,
    8660, 8666, 8671, 8677, 8682, 8687, 8693, 8698, 8704, 8709, 8714, 8720, 8725, 8730, 8736, 8741, 8746, 8751, 8757, 8762,
    8767, 8773, 8778, 8783, 8788, 8793, 8799, 8804, 8809, 8814, 8819, 8824, 8829, 8835, 8840, 8845, 8850, 8855, 8860, 8865,
    8870, 8875, 8880, 8885, 8890, 8895, 8900, 8905, 8910, 8915, 8920, 8925, 8930, 8935, 8940, 8944, 8949, 8954, 8959, 8964,
    8969, 8974, 8978, 8983, 8988, 8993, 8997, 9002, 9007, 9012, 9016, 9021, 9026, 9031, 9035, 9040, 9045, 9049, 9054, 9058,
    9063, 9068, 9072, 9077, 9081, 9086, 9091, 9095, 9100, 9104, 9109, 9113, 9118, 9122, 9127, 9131, 9135, 9140, 9144, 9149,
    9153, 9158, 9162, 9166, 9171, 9175, 9179, 9184, 9188, 9192, 9197, 9201, 9205, 9209, 9214, 9218, 9222, 9226, 9230, 9235,
    9239, 9243, 9247, 9251, 9255, 9260, 9264, 9268, 9272, 9276, 9280, 9284, 9288, 9292, 9296, 9300, 9304, 9308, 9312, 9316,
    9320, 9324, 9328, 9332, 9336, 9340, 9344, 9347, 9351, 9355, 9359, 9363, 9367, 9371, 9374, 9378, 9382, 9386, 9389, 9393,
    9397, 9401, 9404, 9408, 9412, 9415, 9419, 9423, 9426, 9430, 9434, 9437, 9441, 9444, 9448, 9452, 9455, 9459, 9462, 9466,
    9469, 9473, 9476, 9480, 9483, 9487, 9490, 9494, 9497, 9500, 9504, 9507, 9511, 9514, 9517, 9521, 9524, 9527, 9531, 9534,
    9537, 9540, 9544, 9547, 9550, 9553, 9557, 9560, 9563, 9566, 9569, 9573, 9576, 9579, 9582, 9585, 9588, 9591, 9594, 9597,
    9600, 9604, 9607, 9610, 9613, 9616, 9619, 9622, 9625, 9628, 9630, 9633, 9636, 9639, 9642, 9645, 9648, 9651, 9654, 9656,
    9659, 9662, 9665, 9668, 9670, 9673, 9676, 9679, 9681, 9684, 9687, 9690, 9692, 9695, 9698, 9700, 9703, 9706, 9708, 9711,
    9713, 9716, 9719, 9721, 9724, 9726, 9729, 9731, 9734, 9736, 9739, 9741, 9744, 9746, 9749, 9751, 9753, 9756, 9758, 9761,
    9763, 9765, 9768, 9770, 9772, 9775, 9777, 9779, 9781, 9784, 9786, 9788, 9790, 9793, 9795, 9797, 9799, 9801, 9804, 9806,
    9808, 9810, 9812, 9814, 9816, 9818, 9820, 9822, 9825, 9827, 9829, 9831, 9833, 9835, 9837, 9838, 9840, 9842, 9844, 9846,
    9848, 9850, 9852, 9854, 9856, 9857, 9859, 9861, 9863, 9865, 9866, 9868, 9870, 9872, 9873, 9875, 9877, 9879, 9880, 9882,
    9884, 9885, 9887, 9889, 9890, 9892, 9893, 9895, 9897, 9898, 9900, 9901, 9903, 9904, 9906, 9907, 9909, 9910, 9912, 9913,
    9914, 9916, 9917, 9919, 9920, 9921, 9923, 9924, 9925, 9927, 9928, 9929, 9931, 9932, 9933, 9934, 9936, 9937, 9938, 9939,
    9941, 9942, 9943, 9944, 9945, 9946, 9947, 9949, 9950, 9951, 9952, 9953, 9954, 9955, 9956, 9957, 9958, 9959, 9960, 9961,
    9962, 9963, 9964, 9965, 9966, 9967, 9967, 9968, 9969, 9970, 9971, 9972, 9973, 9973, 9974, 9975, 9976, 9976, 9977, 9978,
    9979, 9979, 9980, 9981, 9981, 9982, 9983, 9983, 9984, 9985, 9985, 9986, 9986, 9987, 9987, 9988, 9988, 9989, 9990, 9990,
    9990, 9991, 9991, 9992, 9992, 9993, 9993, 9994, 9994, 9994, 9995, 9995, 9995, 9996, 9996, 9996, 9997, 9997, 9997, 9997,
    9998, 9998, 9998, 9998, 9998, 9999, 9999, 9999, 9999, 9999, 9999, 10000, 10000, 10000, 10000, 10000, 10000, 10000, 10000, 10000,
    10000 >>

\* f32::sin
sin(angle) ==
    LET m == angle % FullTurn
        q == FullTurn \div 4
    IN  IF m <= q THEN SinTab[m + 1]
        ELSE IF m <= 2 * q THEN SinTab[2 * q - m + 1]
        ELSE IF m <= 3 * q THEN 0 - SinTab[m - 2 * q + 1]
        ELSE 0 - SinTab[FullTurn - m + 1]

\* f32::cos
cos(angle) == sin(angle + FullTurn \div 4)

\* f32::floor followed by `as i32`, of a length: the index of its cell.
floor(v) == v \div Unit

(***************************************************************************)
(* The grid and check_collision.                                           *)
(***************************************************************************)
\* The literal of main.
World ==
    << <<1, 1, 1, 1, 1, 1, 1, 1, 1, 1, 1, 1>>,
       <<1, 0, 0, 0, 1, 0, 0, 0, 0, 0, 0, 1>>,
       <<1, 0, 0, 0, 1, 0, 1, 1, 1, 1, 0, 1>>,
       <<1, 0, 0, 0, 0, 0, 1, 0, 0, 1, 0, 1>>,
       <<1, 0, 0, 0, 0, 0, 1, 0, 1, 1, 0, 1>>,
       <<1, 0, 0, 0, 0, 0, 0, 0, 0, 0, 0, 1>>,
       <<1, 0, 1, 1, 1, 0, 1, 1, 1, 1, 0, 1>>,
       <<1, 0, 1, 0, 0, 0, 1, 0, 0, 1, 0, 1>>,
       <<1, 0, 1, 0, 1, 1, 1, 0, 1, 1, 0, 1>>,
       <<1, 0, 0, 0, 0, 0, 0, 0, 0, 0, 0, 1>>,
       <<1, 1, 1, 1, 1, 1, 1, 1, 1, 1, 1, 1>> >>

\* world[0].len() and world.len(), of the type [[i32; 12]; 11].
Width(w) == Len(w[1])
Height(w) == Len(w)

\* Whether (x, y) indexes a cell of the grid.
InRange(w, x, y) == x >= 0 /\ x < Width(w) /\ y >= 0 /\ y < Height(w)

\* What an index out of range yields here; in Rust it panics.
OutOfRange == 0 - 1

\* world[y as usize][x as usize]
At(w, y, x) == IF InRange(w, x, y) THEN w[y + 1][x + 1] ELSE OutOfRange

\* A slip in the guard: <= for <.
collision_guard_offbyone(w, x, y) == x >= 0 /\ x <= Width(w) /\ y >= 0 /\ y <= Height(w)

\* The operands of check_collision's && chain that precede the indexing.
collision_guard(w, x, y) == x >= 0 /\ x < Width(w) /\ y >= 0 /\ y < Height(w)

\* check_collision: the chain is evaluated left to right and stops at the
\* first false operand, so the grid is indexed only under the guard.
check_collision(w, x, y) == collision_guard(w, x, y) /\ At(w, y, x) # 0

\* Whether check_collision(w, x, y) indexes the grid out of range.
check_collision_panics(w, x, y) == collision_guard(w, x, y) /\ ~InRange(w, x, y)

(***************************************************************************)
(* cast_ray.                                                               *)
(***************************************************************************)
\* What `distance += 0.01` adds.
Step == Unit \div 100

\* The most turns of cast_ray's loop that the model follows.  The loop has
\* no cap of its own.
MaxSteps == 1700

\* A slip in the condition: the four tests of the bounding box left out.
Leaves_walls_only(w, x, y) == check_collision(w, floor(x), floor(y))

\* The condition under which the loop returns, for the sample (x, y).
Leaves(w, x, y) ==
    \/ x < 0
    \/ x >= Width(w) * Unit
    \/ y < 0
    \/ y >= Height(w) * Unit
    \/ check_collision(w, floor(x), floor(y))

\* Whether the loop returns in its turn number n, where distance is n * Step
\* and the sample is (px + distance * cos_angle, py + distance * sin_angle);
\* dx and dy are what one turn adds to the sample.
ReturnsAt(w, px, py, dx, dy, n) == Leaves(w, px + n * dx, py + n * dy)

\* The turns of the loop are examined a block at a time.
Block == 10 * 10

\* The number of the first turn, from turn n on, in which the loop returns;
\* 0 when it has not returned after MaxSteps turns.
RECURSIVE first_return(_, _, _, _, _, _)
first_return(w, px, py, dx, dy, n) ==
    LET last == IF n + Block - 1 < MaxSteps THEN n + Block - 1 ELSE MaxSteps
    IN  IF \E k \in n..last : ReturnsAt(w, px, py, dx, dy, k)
        THEN CHOOSE k \in n..last :
                /\ ReturnsAt(w, px, py, dx, dy, k)
                /\ \A j \in n..(k - 1) : ~ReturnsAt(w, px, py, dx, dy, j)
        ELSE IF last = MaxSteps THEN 0
        ELSE first_return(w, px, py, dx, dy, last + 1)

\* loop { distance += 0.01; x = ...; y = ...; if ... { return (x, y, distance) } }
\* `returned` is false when the model gave up after MaxSteps turns.
march(w, px, py, cos_angle, sin_angle) ==
    LET dx == (Step * cos_angle) \div TrigScale
        dy == (Step * sin_angle) \div TrigScale
        n  == first_return(w, px, py, dx, dy, 1)
        m  == IF n = 0 THEN MaxSteps ELSE n
    IN  [x        |-> px + m * dx,
         y        |-> py + m * dy,
         distance |-> m * Step,
         returned |-> n # 0]

\* A slip in cast_ray: angle.cos() taken for sin_angle too.
cast_ray_cos_twice(w, px, py, angle) == march(w, px, py, cos(angle), cos(angle))

cast_ray(w, px, py, angle) == march(w, px, py, cos(angle), sin(angle))

(***************************************************************************)
(* MyWindowHandler.                                                        *)
(***************************************************************************)
\* The key codes the model tells apart: the four the handler reads, and one
\* that stands for every other VirtualKeyCode.
Arrows == {"Left", "Right", "Up", "Down"}
Keys == Arrows \cup {"Escape"}

\* key_code is an Option<VirtualKeyCode>.
None == "None"
KeyCodes == Keys \cup {None}

\* Constants of on_draw.
screen_width == 1280
screen_height == 960
num_rays == 320

\* 5.0_f32.to_radians(), the turn of one frame.
turn_speed == to_radians(5)

\* self.pov.cos() * 0.1 and self.pov.sin() * 0.1, the move of one frame.
stride(trig) == (trig * (Unit \div 10)) \div TrigScale

\* The bounds of the exploration: the key events of a run, the frames of a
\* run with at most one key event, and the frames of a run with more.
MaxKeyEvents == 2
MaxFrames == 56
MaxChordFrames == 3

CanKey == events < MaxKeyEvents /\ (events = 0 \/ frames < MaxChordFrames)
CanFrame == frames < (IF events <= 1 THEN MaxFrames ELSE MaxChordFrames)

\* A slip in on_key_up: the key stays in the set.
released_kept(keys, key) == keys

\* self.keys_pressed.insert(key) and self.keys_pressed.remove(&key)
pressed(keys, key) == keys \cup {key}
released(keys, key) == keys \ {key}

on_key_down(key_code) ==
    /\ CanKey
    /\ keys_pressed' = IF key_code # None THEN pressed(keys_pressed, key_code) ELSE keys_pressed
    /\ last_event' = IF key_code # None THEN [last_event EXCEPT ![key_code] = "down"] ELSE last_event
    /\ events' = events + 1
    /\ UNCHANGED <<world, pov, fov, player_x, player_y, frame, frames, call>>

on_key_up(key_code) ==
    /\ CanKey
    /\ keys_pressed' = IF key_code # None THEN released(keys_pressed, key_code) ELSE keys_pressed
    /\ last_event' = IF key_code # None THEN [last_event EXCEPT ![key_code] = "up"] ELSE last_event
    /\ events' = events + 1
    /\ UNCHANGED <<world, pov, fov, player_x, player_y, frame, frames, call>>

\* The first part of on_draw, "Handle movement based on pressed keys": the
\* four ifs in their order, from the player state s under the keys held.
moved(keys, s) ==
    LET p1 == IF "Left" \in keys THEN s.pov - turn_speed ELSE s.pov
        p2 == IF "Right" \in keys THEN p1 + turn_speed ELSE p1
        x1 == IF "Up" \in keys THEN s.x + stride(cos(p2)) ELSE s.x
        y1 == IF "Up" \in keys THEN s.y + stride(sin(p2)) ELSE s.y
        x2 == IF "Down" \in keys THEN x1 - stride(cos(p2)) ELSE x1
        y2 == IF "Down" \in keys THEN y1 - stride(sin(p2)) ELSE y1
    IN  [pov |-> p2, x |-> x2, y |-> y2]

\* What a pass of rays reads of self.
view(w, p, f, x, y) == [world |-> w, pov |-> p, fov |-> f, px |-> x, py |-> y]

\* on_draw: the movement, then the wall pass and the minimap pass, both of
\* which read self and write nothing to it.  What on_draw hands to Graphics2D
\* is no state of the program: `frame` keeps what each pass read, and the
\* primitives drawn from it are the operators of the next section.
on_draw ==
    /\ CanFrame
    /\ LET s == moved(keys_pressed, [pov |-> pov, x |-> player_x, y |-> player_y])
       IN  /\ pov' = s.pov
           /\ player_x' = s.x
           /\ player_y' = s.y
    /\ frame' = [drawn   |-> TRUE,
                 walls   |-> view(world, pov', fov, player_x', player_y'),
                 minimap |-> view(world, pov', fov, player_x', player_y')]
    /\ frames' = frames + 1
    /\ UNCHANGED <<world, fov, keys_pressed, last_event, events, call>>

(***************************************************************************)
(* What on_draw draws from the view v that a pass read.                    *)
(***************************************************************************)
Columns == 0..(num_rays - 1)

half_fov(v) == v.fov \div 2

\* Wall pass: self.pov - half_fov + (self.fov / num_rays as f32) * i as f32
ray_angle(v, i) == v.pov - half_fov(v) + (v.fov \div num_rays) * i

\* Wall pass: cast_ray(&self.world, self.player_x, self.player_y, ray_angle)
wall_ray(v, i) == cast_ray(v.world, v.px, v.py, ray_angle(v, i))

\* A slip in the fisheye correction: the cosine of the ray's own angle.
corrected_distance_of_ray_angle(v, i) ==
    (wall_ray(v, i).distance \div TrigScale) * cos(ray_angle(v, i))

\* distance * (self.pov - ray_angle).cos()
corrected_distance(v, i) ==
    (wall_ray(v, i).distance \div TrigScale) * cos(v.pov - ray_angle(v, i))

\* What a division of f32 by zero yields.
Infinity == 2147483647

\* (screen_height / corrected_distance) * 1.5, in pixels.
wall_height(v, i) ==
    LET d == corrected_distance(v, i)
    IN  IF d = 0 THEN Infinity ELSE (((screen_height * Unit) \div d) * 3) \div 2

wall_top(v, i) == screen_height \div 2 - wall_height(v, i) \div 2
wall_bottom(v, i) == screen_height \div 2 + wall_height(v, i) \div 2

\* A slip in the slice width: the other screen dimension.
slice_width_of_height == screen_height \div num_rays

\* screen_width / num_rays as f32
slice_width == screen_width \div num_rays

\* The x of the two corners of column i's rectangle.
slice_left(i) == i * slice_width
slice_right(i) == (i + 1) * slice_width

\* The screen-x range of the rectangle drawn for each column of the wall pass.
wall_slices == [i \in Columns |-> [left |-> slice_left(i), right |-> slice_right(i)]]

\* A slip in the minimap pass: the fan swept the other way.
map_ray_angle_mirrored(v, i) == v.pov + half_fov(v) - (v.fov \div num_rays) * i

\* Minimap pass: the angle of ray i, and its cast.
map_ray_angle(v, i) == v.pov - half_fov(v) + (v.fov \div num_rays) * i
map_ray(v, i) == cast_ray(v.world, v.px, v.py, map_ray_angle(v, i))

(***************************************************************************)
(* The handler from construction.                                          *)
(***************************************************************************)
NoFrame ==
    [drawn |-> FALSE, walls |-> view(World, 0, 0, 0, 0), minimap |-> view(World, 0, 0, 0, 0)]

NoCall == [done |-> FALSE]

\* The player state main constructs.
Start == [pov |-> to_radians(90), x |-> 3 * Unit, y |-> 3 * Unit]

Init ==
    /\ world = World
    /\ pov = Start.pov
    /\ fov = to_radians(60)
    /\ player_x = Start.x
    /\ player_y = Start.y
    /\ keys_pressed = {}
    /\ frame = NoFrame
    /\ last_event = [k \in Keys |-> "none"]
    /\ events = 0
    /\ frames = 0
    /\ call = NoCall

Next ==
    \/ \E key_code \in KeyCodes : on_key_down(key_code)
    \/ \E key_code \in KeyCodes : on_key_up(key_code)
    \/ on_draw

Spec == Init /\ [][Next]_vars

(***************************************************************************)
(* One frame, from states the handler reaches by one key held.             *)
(***************************************************************************)
\* The player state after k frames with only `key` held since construction.
\* With one key held every frame adds the same amounts: a turn leaves the
\* position, and a move leaves the angle its stride is taken from.
Held(key, k) ==
    LET s == moved({key}, Start)
    IN  [pov |-> Start.pov + k * (s.pov - Start.pov),
         x   |-> Start.x + k * (s.x - Start.x),
         y   |-> Start.y + k * (s.y - Start.y)]

\* The numbers of frames held from which a frame is drawn.  Turning, the
\* player looks every way from (3, 3).  Moving up it crosses the room, is in
\* the wall of row 6 from frame 30 to frame 39, and in the open again after;
\* moving down it reaches row 1 at frame 20, the border wall at frame 21,
\* and is off the grid from frame 31.
TurnFrames == {0, 9, 27, 45}
UpFrames == {0, 14, 28, 54} \cup (29..38)
DownFrames == {0, 10, 19} \cup (20..46)
FramesHeld(key) ==
    IF key \in {"Left", "Right"} THEN TurnFrames
    ELSE IF key = "Up" THEN UpFrames
    ELSE DownFrames

InitFrame ==
    \E key \in Arrows :
        \E k \in FramesHeld(key) :
            /\ world = World
            /\ pov = Held(key, k).pov
            /\ fov = to_radians(60)
            /\ player_x = Held(key, k).x
            /\ player_y = Held(key, k).y
            /\ keys_pressed = {key}
            /\ frame = NoFrame
            /\ last_event = [j \in Keys |-> IF j = key THEN "down" ELSE "none"]
            /\ events = 1
            /\ frames = k
            /\ call = NoCall

NextFrame == ~frame.drawn /\ on_draw

SpecFrame == InitFrame /\ [][NextFrame]_vars

(***************************************************************************)
(* The free functions, called on inputs drawn from bounded sets.           *)
(***************************************************************************)
Idle ==
    /\ world = World
    /\ pov = Start.pov
    /\ fov = to_radians(60)
    /\ player_x = Start.x
    /\ player_y = Start.y
    /\ keys_pressed = {}
    /\ frame = NoFrame
    /\ last_event = [k \in Keys |-> "none"]
    /\ events = 0
    /\ frames = 0

\* How far outside the grid the coordinates given to check_collision go.
Margin == 2

InitCollision ==
    /\ Idle
    /\ \E x \in (0 - Margin)..(Width(World) - 1 + Margin),
          y \in (0 - Margin)..(Height(World) - 1 + Margin) :
            call = [w |-> World, x |-> x, y |-> y,
                    done |-> FALSE, ret |-> FALSE, panicked |-> FALSE]

Collide ==
    /\ ~call.done
    /\ call' = [call EXCEPT !.done = TRUE,
                            !.ret = check_collision(call.w, call.x, call.y),
                            !.panicked = check_collision_panics(call.w, call.x, call.y)]
    /\ UNCHANGED <<world, pov, fov, player_x, player_y, keys_pressed,
                   frame, last_event, events, frames>>

SpecCollision == InitCollision /\ [][Collide]_vars

\* World without its outer ring of walls.
NoBorderWorld ==
    [y \in 1..Height(World) |->
        [x \in 1..Width(World) |->
            IF x = 1 \/ x = Width(World) \/ y = 1 \/ y = Height(World)
            THEN 0 ELSE World[y][x]]]

\* Whether every cell of the outer ring of w is a wall.
Bordered(w) ==
    /\ \A x \in 1..Width(w) : w[1][x] # 0 /\ w[Height(w)][x] # 0
    /\ \A y \in 1..Height(w) : w[y][1] # 0 /\ w[y][Width(w)] # 0

\* The origins: in every empty cell of World (each is empty in NoBorderWorld
\* too), at these offsets from the cell's corner.
EmptyCells == {c \in (0..Width(World) - 1) \X (0..Height(World) - 1) : World[c[2] + 1][c[1] + 1] = 0}
OffsetsX == {5000, 505000, 995000}
OffsetsY == {5000, 500000, 995000}

\* The angles: every 15 degrees.
RayAngles == {to_radians(15 * k) : k \in 0..23}

NoResult == [x |-> 0, y |-> 0, distance |-> 0, returned |-> FALSE]

InitRay ==
    /\ Idle
    /\ \E w \in {World, NoBorderWorld}, c \in EmptyCells,
          ox \in OffsetsX, oy \in OffsetsY, a \in RayAngles :
            call = [w |-> w, px |-> c[1] * Unit + ox, py |-> c[2] * Unit + oy,
                    angle |-> a, done |-> FALSE, out |-> NoResult]

CastRay ==
    /\ ~call.done
    /\ call' = [call EXCEPT !.done = TRUE,
                            !.out = cast_ray(call.w, call.px, call.py, call.angle)]
    /\ UNCHANGED <<world, pov, fov, player_x, player_y, keys_pressed,
                   frame, last_event, events, frames>>

SpecRay == InitRay /\ [][CastRay]_vars

(***************************************************************************)
(* Properties of check_collision, under SpecCollision.                     *)
(***************************************************************************)
\* C1: check_collision returns false for every pair of coordinates outside
\* the grid, for a pair inside it returns true exactly when the cell is not
\* zero, never indexes the grid out of range, and leaves the handler's state
\* as it was.
C1_CollisionContract ==
    call.done =>
        /\ ~call.panicked
        /\ ~InRange(call.w, call.x, call.y) => ~call.ret
        /\ InRange(call.w, call.x, call.y) => (call.ret <=> call.w[call.y + 1][call.x + 1] # 0)
        /\ Idle

\* A call just past the right edge, in a row of the grid, that returned false.
C1_Witness ==
    /\ call.done
    /\ call.x = Width(call.w)
    /\ call.y = 3
    /\ ~call.ret

(***************************************************************************)
(* Properties of cast_ray, under SpecRay.                                  *)
(***************************************************************************)
\* Whether the point (x, y) is inside the bounding box of the grid.
InBox(w, x, y) == x >= 0 /\ x < Width(w) * Unit /\ y >= 0 /\ y < Height(w) * Unit

\* Whether the point (x, y) is in a cell of the grid that is not zero.
InWall(w, x, y) == InBox(w, x, y) /\ w[floor(y) + 1][floor(x) + 1] # 0

\* Whether distance is less than the diagonal of the grid plus one step:
\* with n the whole steps in distance, (n - 1)^2 < (W^2 + H^2) * (steps in a cell)^2.
WithinDiagonal(w, distance) ==
    LET n == distance \div Step - 1
        c == Unit \div Step
    IN  distance > 0 /\ n * n < (Width(w) * Width(w) + Height(w) * Height(w)) * c * c

\* The sample of the call's ray after n turns of the loop.
SampleX(n) == call.px + n * ((Step * cos(call.angle)) \div TrigScale)
SampleY(n) == call.py + n * ((Step * sin(call.angle)) \div TrigScale)

\* The turns the call's loop made.
Turns == call.out.distance \div Step

\* C2: from an origin strictly inside an empty cell of a grid whose outer
\* border is all walls, at every angle, cast_ray returns, and the distance
\* it returns is less than the grid's diagonal plus one step.
C2_BorderedRayBounded ==
    (/\ call.done
     /\ Bordered(call.w)
     /\ ~InWall(call.w, call.px, call.py)
     /\ call.px % Unit # 0
     /\ call.py % Unit # 0)
        => call.out.returned /\ WithinDiagonal(call.w, call.out.distance)

\* A ray along the longest corridor of World: ten cells before it meets a wall.
C2_Witness ==
    /\ call.done
    /\ Bordered(call.w)
    /\ call.out.returned
    /\ call.out.distance >= 10 * Unit - Step

\* The "no hit" distance of the specification, 1000.0.
NoHit == 1000 * Unit

\* A call on a grid without a border of walls whose ray ended in no wall.
MeetsNoWall ==
    /\ call.done
    /\ ~Bordered(call.w)
    /\ ~InWall(call.w, call.out.x, call.out.y)

C9_StopsAtFirstWall ==
    (call.done /\ call.out.returned /\ ~InWall(call.w, call.px, call.py)) =>
        \A k \in 1..(2 * (Turns - 1)) :
            ~InWall(call.w,
                    (2 * call.px + k * ((Step * cos(call.angle)) \div TrigScale)) \div 2,
                    (2 * call.py + k * ((Step * sin(call.angle)) \div TrigScale)) \div 2)

(***************************************************************************)
(* Properties of the handler from construction, under Spec.                *)
(***************************************************************************)
\* C4: after any frames with any keys held the stored angle stays wrapped,
\* in (-360, 360] degrees.
C4_PovWrapped == pov > 0 - FullTurn /\ pov <= FullTurn

\* C10: after any key events and frames the player is inside the grid, in
\* an empty cell.
C10_PlayerInEmptyCell ==
    /\ InBox(world, player_x, player_y)
    /\ ~InWall(world, player_x, player_y)

\* 1 when the key is held, else 0.
Is(key) == IF key \in keys_pressed THEN 1 ELSE 0

\* C7: the player state changes only in on_draw and as the keys held then
\* say; a key event changes nothing but keys_pressed; a key is held exactly
\* when its latest event was a key-down; a frame with none of the four keys
\* held leaves the player state as it was; world and fov never change.
C7_KeysDrivePlayer ==
    /\ [](\A k \in Keys : k \in keys_pressed <=> last_event[k] = "down")
    /\ [][/\ world' = world
          /\ fov' = fov
          /\ events' # events =>
                /\ <<pov, player_x, player_y>>' = <<pov, player_x, player_y>>
                /\ frame' = frame
          /\ <<pov, player_x, player_y>>' # <<pov, player_x, player_y>> => frames' # frames
          /\ frames' # frames =>
                /\ keys_pressed' = keys_pressed
                /\ pov' = pov + (Is("Right") - Is("Left")) * turn_speed
                /\ player_x' = player_x + (Is("Up") - Is("Down")) * stride(cos(pov'))
                /\ player_y' = player_y + (Is("Up") - Is("Down")) * stride(sin(pov'))
                /\ keys_pressed \cap Arrows = {} =>
                      <<pov, player_x, player_y>>' = <<pov, player_x, player_y>>
         ]_vars

\* Up was pressed, a frame moved the player, and Up was released.
C7_Witness ==
    /\ frames >= 1
    /\ last_event["Up"] = "up"
    /\ "Up" \notin keys_pressed
    /\ player_y > Start.y

(***************************************************************************)
(* Properties of one frame, under SpecFrame.                               *)
(***************************************************************************)
\* C5: in every frame and for every column, the fisheye-corrected distance
\* by which on_draw divides the screen height is at least 0.001.
C5_DistanceAtLeastEpsilon ==
    frame.drawn =>
        \A i \in Columns : corrected_distance(frame.walls, i) >= Unit \div 1000

\* A frame drawn with the player inside a wall: the rays return in their
\* first turn, and the corrected distance of column 0 is less than a step.
C5_Witness ==
    /\ frame.drawn
    /\ InWall(world, player_x, player_y)
    /\ corrected_distance(frame.walls, 0) < Step

\* The wall slices lie side by side from 0 to screen_width in column order.
SlicesTile ==
    /\ DOMAIN wall_slices = 0..319
    /\ wall_slices[0].left = 0
    /\ wall_slices[319].right = 1280
    /\ \A i \in 0..319 : wall_slices[i].right - wall_slices[i].left = 4
    /\ \A i \in 0..318 : wall_slices[i].right = wall_slices[i + 1].left
    /\ \A i, j \in 0..319 :
          i # j => \/ wall_slices[i].right <= wall_slices[j].left
                   \/ wall_slices[j].right <= wall_slices[i].left

\* C6: a frame draws one wall slice for each of the 320 columns; slice i
\* spans the screen-x range [4 i, 4 (i + 1)), so the slices of distinct
\* columns are disjoint and together cover [0, 1280).
C6_SlicesTileTheScreen == frame.drawn => SlicesTile

C6_Witness ==
    /\ frame.drawn
    /\ wall_slices[num_rays - 1].right = screen_width

\* C8: the movement of a frame is applied before its rays are cast and
\* nothing changes between them: both passes read the player state that the
\* frame leaves, and the minimap ray of each column has the angle and the
\* hit of the wall ray of that column.
C8_PassesReadOneState ==
    frame.drawn =>
        /\ frame.walls = view(world, pov, fov, player_x, player_y)
        /\ frame.minimap = frame.walls
        /\ \A i \in Columns :
              /\ map_ray_angle(frame.minimap, i) = ray_angle(frame.walls, i)
              /\ map_ray(frame.minimap, i) = wall_ray(frame.walls, i)

\* A frame drawn after a turn to the right was applied in it.
C8_Witness ==
    /\ frame.drawn
    /\ "Right" \in keys_pressed
    /\ frame.walls.pov = Start.pov + 10 * turn_speed
    /\ map_ray(frame.minimap, 0).returned
====
